---- MODULE Spec2Model ----
(***************************************************************************)
(* Model of the FastTrig integer trigonometry kernel (src/fast_trig.hpp):  *)
(* the class template IntegerTrig<TableSize>, its three compile-time       *)
(* lookup tables and its public evaluators, and the AngleConvert           *)
(* utilities of the same header.  Every operator computes what             *)
(* the C++ computes, with the C++ integer widths: uint16_t results are     *)
(* reduced modulo 2^16, int32_t right shifts are arithmetic (floor), `/`   *)
(* truncates toward zero.                                                  *)
(***************************************************************************)
EXTENDS Integers, Sequences, FiniteSets, TLC

VARIABLES
    N,      \* the template argument TableSize of the instantiation in use
    kind,   \* which kind of argument the caller holds: "angle", "vector",
            \* "value", "point", "index" for a table builder's loop index,
            \* "template" for a candidate TableSize, "degrees" or "units"
            \* for AngleConvert, "callers" for concurrent callers
    in1,    \* first argument  (angle; y of atan2; value; x of magnitude; index)
    in2,    \* second argument (x of atan2; y of magnitude), 0 when there is
            \* none; for from_degrees the parameter as the loops rewrite it
    op,     \* the operation that returned last, "none" before the first call
    out,    \* what it returned (sin_out of sincos)
    out2,   \* cos_out of sincos; the bytes of tables of an instantiation;
            \* the loop iterations of from_degrees; 0 otherwise
    calls   \* the stack frame of each concurrent caller (its arguments,
            \* position and locals); <<>> when there is a single caller

vars == <<N, kind, in1, in2, op, out, out2, calls>>

----------------------------------------------------------------------------
(* Integer widths and C++ arithmetic *)

U16 == 65536            \* 2^16, modulus of uint16_t
I16Min == -32768
I16Max == 32767

\* static_cast<uint16_t>(v), and the conversion of an int to a uint16_t result
ToU16(v) == v % U16

\* static_cast<int16_t>(v)
ToI16(v) == LET m == v % U16 IN IF m > I16Max THEN m - U16 ELSE m

\* C++ integer division, truncating toward zero (b # 0)
TruncDiv(a, b) ==
    LET q == (IF a < 0 THEN -a ELSE a) \div (IF b < 0 THEN -b ELSE b)
    IN  IF (a < 0) = (b < 0) THEN q ELSE -q

Abs(v) == IF v < 0 THEN -v ELSE v

\* 2^k for k >= 0
RECURSIVE Pow2(_)
Pow2(k) == IF k = 0 THEN 1 ELSE 2 * Pow2(k - 1)

\* v >> k on an int32_t (arithmetic shift: floor division)
Sar(v, k) == v \div Pow2(k)

\* x & m for x >= 0 and m = 2^j - 1
Mask(x, m) == x % (m + 1)

\* a & b, bit by bit, for a >= 0 and b >= 0
RECURSIVE BitAnd(_, _)
BitAnd(a, b) ==
    IF a = 0 \/ b = 0 THEN 0
    ELSE (a % 2) * (b % 2) + 2 * BitAnd(a \div 2, b \div 2)

\* a ^ b, bit by bit, for a >= 0 and b >= 0
RECURSIVE BitXor(_, _)
BitXor(a, b) ==
    IF a = 0 THEN b
    ELSE IF b = 0 THEN a
    ELSE ((a + b) % 2) + 2 * BitXor(a \div 2, b \div 2)

\* a ^ b for two 16-bit images, taken four bits at a time
Xor4 == [a \in 0..15 |-> [b \in 0..15 |-> BitXor(a, b)]]
BitXor16(a, b) ==
    Xor4[a % 16][b % 16]
    + 16 * Xor4[(a \div 16) % 16][(b \div 16) % 16]
    + 256 * Xor4[(a \div 256) % 16][(b \div 256) % 16]
    + 4096 * Xor4[a \div 4096][b \div 4096]

----------------------------------------------------------------------------
(* Template parameter and class constants *)

\* the `requires` clause with the upper limit on TableSize left out
ValidTableSize_NoUpperLimit(n) ==
    /\ n >= 8
    /\ BitAnd(n, n - 1) = 0

\* the `requires` clause of the template, for a std::size_t n >= 0 (&& does
\* not evaluate n - 1 when n < 8)
ValidTableSize(n) ==
    /\ n >= 8
    /\ n <= 4096
    /\ BitAnd(n, n - 1) = 0

\* the type aliases Trig32 .. Trig512
StandardSizes == {32, 64, 128, 256, 512}

\* ANGLE_MAX set to the documented full turn, 16384
ANGLE_MAX_FullTurn == 16384

ANGLE_MAX == 8192
OUTPUT_SCALE == 8192

\* __builtin_ctz(TableSize) for a power of two
TABLE_BITS(n) == CHOOSE k \in 0..12 : Pow2(k) = n
TABLE_MASK(n) == n - 1
RECIPROCAL_QUADRANT(n) == (n * 65536) \div 4096

\* table_memory(): the sizeof of the three arrays of n 16-bit entries
table_memory(n) == 2 * n + 2 * n + 2 * n

\* every TableSize the `requires` clause accepts
TableSizes == {n \in 8..4096 : ValidTableSize(n)}

----------------------------------------------------------------------------
(* Compile-time table builders *)

\* sin_internal: the rational approximation the sine and asin builders share
sin_internal(angle) ==
    LET x           == angle
        term        == (x * (16384 - x)) \div 16384
        numerator   == term * 4
        denominator == 16487 - term
    IN  IF denominator = 0
        THEN OUTPUT_SCALE * 2
        ELSE ToI16(TruncDiv(numerator * OUTPUT_SCALE * 2, denominator))

generate_sine_quarter_table(n) ==
    [i \in 0..(n - 1) |-> sin_internal((i * 16384) \div (n - 1))]

\* the 16 CORDIC steps of generate_atan_quarter_table for one entry; `angle`
\* is the uint32_t accumulator, kept as the signed value it wraps around
RECURSIVE atan_cordic(_, _, _, _, _)
atan_cordic(k, x, y, angle, target_y) ==
    IF k = 16 THEN angle
    ELSE LET angle_step == 2048 \div Pow2(k)
         IN  IF y < target_y
             THEN atan_cordic(k + 1, x - Sar(y, k), y + Sar(x, k),
                              angle + angle_step, target_y)
             ELSE atan_cordic(k + 1, x + Sar(y, k), y - Sar(x, k),
                              angle - angle_step, target_y)

generate_atan_quarter_table(n) ==
    [i \in 0..(n - 1) |->
        ToU16(atan_cordic(0, 16384, 0, 0, (i * 16384) \div n))]

\* the binary search of generate_asin_quarter_table for one entry
RECURSIVE asin_search(_, _, _)
asin_search(low, high, target) ==
    IF high - low > 1
    THEN LET mid == (low + high) \div 2
         IN  IF sin_internal(mid) < target
             THEN asin_search(mid, high, target)
             ELSE asin_search(low, mid, target)
    ELSE ToU16((low + high) \div 2)

generate_asin_quarter_table(n) ==
    [i \in 0..(n - 1) |->
        asin_search(0, ANGLE_MAX \div 2, (i * OUTPUT_SCALE * 2) \div n)]

\* the three static constexpr tables, one set per instantiation
sine_quarter_table == [n \in TableSizes |-> generate_sine_quarter_table(n)]
atan_quarter_table == [n \in TableSizes |-> generate_atan_quarter_table(n)]
asin_quarter_table == [n \in TableSizes |-> generate_asin_quarter_table(n)]

----------------------------------------------------------------------------
(* Core trigonometric functions *)

\* y0 + (((y1 - y0) * fraction) >> 8) in int32_t arithmetic
Interpolate(y0, y1, fraction) == y0 + Sar((y1 - y0) * fraction, 8)

\* the negate without the final subtraction: value ^ sign_mask alone
ConditionalNegate_XorOnly(value, sign_mask) ==
    ToI16(BitXor16(ToU16(value), ToU16(sign_mask)))

\* (value ^ sign_mask) - sign_mask for two int16_t operands: both are
\* promoted to int, so the exclusive or is the sign extension of the
\* exclusive or of their 16-bit two's complement images
ConditionalNegate(value, sign_mask) ==
    ToI16(BitXor16(ToU16(value), ToU16(sign_mask))) - sign_mask

sin(n, angle0) ==
    LET angle        == Mask(angle0, 16383)
        quadrant     == angle \div 4096
        position0    == Mask(angle, 4095)
        position     == IF quadrant % 2 = 1 THEN 4096 - position0 ELSE position0
        index_scaled == position * RECIPROCAL_QUADRANT(n)
        index0       == index_scaled \div 65536
        fraction     == Mask(index_scaled \div 256, 255)
        index        == IF index0 < n - 1 THEN index0 ELSE n - 1
        y0           == sine_quarter_table[n][index]
        y1           == sine_quarter_table[n][Mask(index + 1, TABLE_MASK(n))]
        value        == ToI16(Interpolate(y0, y1, fraction))
        sign_mask    == -(quadrant \div 2)
    IN  ToI16(ConditionalNegate(value, sign_mask))

cos(n, angle) == sin(n, ToU16(angle + (ANGLE_MAX \div 4)))

\* tan with the lower clamp at the int16_t minimum instead of -32767
tan_ClampAtInt16Min(n, angle) ==
    LET sin_val == sin(n, angle)
        cos_val == cos(n, angle)
        result  == TruncDiv(sin_val * OUTPUT_SCALE, cos_val)
    IN  IF cos_val > -100 /\ cos_val < 100
        THEN (IF sin_val >= 0 THEN 32767 ELSE -32767)
        ELSE IF result > 32767 THEN 32767
        ELSE IF result < -32768 THEN -32768
        ELSE ToI16(result)

tan(n, angle) ==
    LET sin_val == sin(n, angle)
        cos_val == cos(n, angle)
        result  == TruncDiv(sin_val * OUTPUT_SCALE, cos_val)
    IN  IF cos_val > -100 /\ cos_val < 100
        THEN (IF sin_val >= 0 THEN 32767 ELSE -32767)
        ELSE IF result > 32767 THEN 32767
        ELSE IF result < -32767 THEN -32767
        ELSE ToI16(result)

----------------------------------------------------------------------------
(* Inverse trigonometric functions *)

\* the same expression with the shifted numerator held in a uint16_t
ShlDivLowByte_Uint16(a, s, b) ==
    IF s >= 16 THEN 0
    ELSE Mask(((a % Pow2(16 - s)) * Pow2(s)) \div b, 255)

\* ((a << s) / b) & 0xFF in uint32_t arithmetic, for s >= 8 and 0 < b:
\* (a << s) mod 2^32 = hi * 256 with hi < 2^24, and the low byte of
\* (hi * 256) / b is ((hi mod b) * 256) / b
ShlDivLowByte(a, s, b) ==
    LET hi == (a % Pow2(32 - s)) * Pow2(s - 8)
    IN  Mask(((hi % b) * 256) \div b, 255)

\* (uint32_t)p >> 8 for an int32_t p with |p| < 2^31: a logical shift of the
\* two's complement image of p
ShrU32(p) == IF p >= 0 THEN p \div 256 ELSE 16777216 + (p \div 256)

\* y0 + (((y1 - y0) * fraction) >> 8) where fraction is a uint32_t, so that
\* the product and the shift are unsigned
InterpolateU32(y0, y1, fraction) == y0 + ShrU32((y1 - y0) * fraction)

quadrant_offset == <<0, 2 * ANGLE_MAX, ANGLE_MAX, ANGLE_MAX>>
angle_sign == <<1, -1, -1, 1>>

\* the table lookup of atan2 for the ratio num/den, 0 <= num <= den, 0 < den
atan_lookup(n, num, den) ==
    LET ratio_scaled == (num * Pow2(TABLE_BITS(n))) \div den
        index        == Mask(ratio_scaled, TABLE_MASK(n))
        fraction     == ShlDivLowByte(num, TABLE_BITS(n) + 8, den)
        y0           == atan_quarter_table[n][index]
        y1           == atan_quarter_table[n][Mask(index + 1, TABLE_MASK(n))]
    IN  ToU16(InterpolateU32(y0, y1, fraction))

atan2(n, y, x) ==
    IF x = 0
    THEN (IF y > 0 THEN ANGLE_MAX \div 2
          ELSE IF y < 0 THEN (ANGLE_MAX \div 2) * 3
          ELSE 0)
    ELSE
        LET abs_x == Abs(x)
            abs_y == Abs(y)
            quadrant_adjust == (IF x < 0 THEN 2 ELSE 0) + (IF y < 0 THEN 1 ELSE 0)
            angle == IF abs_x >= abs_y
                     THEN atan_lookup(n, abs_y, abs_x)
                     ELSE ToU16((ANGLE_MAX \div 2) - atan_lookup(n, abs_x, abs_y))
        IN  ToU16(quadrant_offset[quadrant_adjust + 1]
                    + angle * angle_sign[quadrant_adjust + 1])

\* ASIN_RECIPROCAL, the constexpr local of asin
ASIN_RECIPROCAL(n) == (n * 65536) \div (OUTPUT_SCALE * 2)

asin(n, value) ==
    LET abs_val0     == Abs(value)
        abs_val      == IF abs_val0 > OUTPUT_SCALE * 2
                        THEN OUTPUT_SCALE * 2 ELSE abs_val0
        index_scaled == abs_val * ASIN_RECIPROCAL(n)
        index0       == index_scaled \div 65536
        fraction     == Mask(index_scaled \div 256, 255)
        index        == IF index0 < n - 1 THEN index0 ELSE n - 1
        y0           == asin_quarter_table[n][index]
        y1           == asin_quarter_table[n][Mask(index + 1, TABLE_MASK(n))]
        angle        == ToU16(Interpolate(y0, y1, fraction))
    IN  IF value < 0 THEN ToU16(2 * ANGLE_MAX - angle) ELSE angle

acos(n, value) == ToU16((ANGLE_MAX \div 2) - asin(n, value))

----------------------------------------------------------------------------
(* Utility functions *)

\* (x * k) >> 16 in uint32_t arithmetic, for 0 <= x < 2^31 and 0 <= k < 2^16:
\* the low 16 bits of floor(x * k / 2^16), computed from the 16-bit halves
\* of x (and the bytes of the low half) so that no product reaches 2^31
MulShr16U32(x, k) ==
    LET xh == x \div 65536
        xl == x % 65536
        a  == xl \div 256
        b  == xl % 256
        lo == (a * k + ((b * k) \div 256)) \div 256
    IN  (xh * k + lo) % 65536

\* the 12 iterations of magnitude's loop, from iteration i on; the arguments
\* are the uint32_t abs_x and abs_y (no sum wraps while |x|, |y| <= 2^20)
RECURSIVE magnitude_loop(_, _, _)
magnitude_loop(i, abs_x, abs_y) ==
    IF i = 12 THEN abs_x
    ELSE LET x_shift == abs_x \div Pow2(i)
             y_shift == abs_y \div Pow2(i)
         IN  IF abs_y > 0
             THEN magnitude_loop(i + 1, abs_x + y_shift,
                                 IF abs_y > x_shift THEN abs_y - x_shift ELSE 0)
             ELSE magnitude_loop(i + 1, abs_x, abs_y)

magnitude(x, y) == MulShr16U32(magnitude_loop(0, Abs(x), Abs(y)), 39797)

----------------------------------------------------------------------------
(* The table-reading evaluators in the order they execute: the statements  *)
(* before the first table read (fold), the two table reads, and the        *)
(* statements after them (finish)                                          *)

\* sin up to the clamp of index: the quadrant, the table index and the
\* interpolation fraction
sin_fold(n, angle0) ==
    LET angle        == Mask(angle0, 16383)
        quadrant     == angle \div 4096
        position0    == Mask(angle, 4095)
        position     == IF quadrant % 2 = 1 THEN 4096 - position0 ELSE position0
        index_scaled == position * RECIPROCAL_QUADRANT(n)
        index0       == index_scaled \div 65536
    IN  [reads    |-> TRUE,
         quadrant |-> quadrant,
         index    |-> IF index0 < n - 1 THEN index0 ELSE n - 1,
         fraction |-> Mask(index_scaled \div 256, 255)]

\* sin from the interpolation on
sin_finish(quadrant, y0, y1, fraction) ==
    LET value     == ToI16(Interpolate(y0, y1, fraction))
        sign_mask == -(quadrant \div 2)
    IN  ToI16(ConditionalNegate(value, sign_mask))

\* asin up to the clamp of index
asin_fold(n, value) ==
    LET abs_val0     == Abs(value)
        abs_val      == IF abs_val0 > OUTPUT_SCALE * 2
                        THEN OUTPUT_SCALE * 2 ELSE abs_val0
        index_scaled == abs_val * ASIN_RECIPROCAL(n)
        index0       == index_scaled \div 65536
    IN  [reads    |-> TRUE,
         quadrant |-> 0,
         index    |-> IF index0 < n - 1 THEN index0 ELSE n - 1,
         fraction |-> Mask(index_scaled \div 256, 255)]

\* asin from the interpolation on
asin_finish(value, y0, y1, fraction) ==
    LET angle == ToU16(Interpolate(y0, y1, fraction))
    IN  IF value < 0 THEN ToU16(2 * ANGLE_MAX - angle) ELSE angle

\* atan2 up to the table reads: nothing is read on the axis x = 0;
\* elsewhere the index and fraction come from the smaller magnitude over
\* the larger
atan2_fold(n, y, x) ==
    IF x = 0
    THEN [reads |-> FALSE, quadrant |-> 0, index |-> 0, fraction |-> 0]
    ELSE LET abs_x == Abs(x)
             abs_y == Abs(y)
             num   == IF abs_x >= abs_y THEN abs_y ELSE abs_x
             den   == IF abs_x >= abs_y THEN abs_x ELSE abs_y
         IN  [reads    |-> TRUE,
              quadrant |-> (IF x < 0 THEN 2 ELSE 0) + (IF y < 0 THEN 1 ELSE 0),
              index    |-> Mask((num * Pow2(TABLE_BITS(n))) \div den,
                                TABLE_MASK(n)),
              fraction |-> ShlDivLowByte(num, TABLE_BITS(n) + 8, den)]

\* atan2 from the interpolation on (x # 0)
atan2_finish(y, x, quadrant_adjust, y0, y1, fraction) ==
    LET base  == ToU16(InterpolateU32(y0, y1, fraction))
        angle == IF Abs(x) >= Abs(y) THEN base
                 ELSE ToU16((ANGLE_MAX \div 2) - base)
    IN  ToU16(quadrant_offset[quadrant_adjust + 1]
                + angle * angle_sign[quadrant_adjust + 1])

\* the public operations a concurrent caller invokes
Operations == {"sin", "cos", "atan2", "asin", "acos", "magnitude"}

\* the statements of operation fn before its first table read
fold(fn, n, a, b) ==
    CASE fn = "sin"   -> sin_fold(n, a)
      [] fn = "cos"   -> sin_fold(n, ToU16(a + (ANGLE_MAX \div 4)))
      [] fn = "atan2" -> atan2_fold(n, a, b)
      [] fn = "asin"  -> asin_fold(n, a)
      [] fn = "acos"  -> asin_fold(n, a)
      [] OTHER        -> [reads |-> FALSE, quadrant |-> 0, index |-> 0,
                          fraction |-> 0]

\* table[i] for the table that operation fn reads
table_read(fn, n, i) ==
    CASE fn \in {"sin", "cos"}   -> sine_quarter_table[n][i]
      [] fn = "atan2"            -> atan_quarter_table[n][i]
      [] fn \in {"asin", "acos"} -> asin_quarter_table[n][i]

\* the statements of operation fn after its table reads, from its
\* arguments and its locals
finish(fn, a, b, quadrant, y0, y1, fraction) ==
    CASE fn \in {"sin", "cos"} -> sin_finish(quadrant, y0, y1, fraction)
      [] fn = "atan2" -> atan2_finish(a, b, quadrant, y0, y1, fraction)
      [] fn = "asin"  -> asin_finish(a, y0, y1, fraction)
      [] fn = "acos"  ->
            ToU16((ANGLE_MAX \div 2) - asin_finish(a, y0, y1, fraction))

\* the return value of an operation that reads no table
return_direct(fn, n, a, b) ==
    CASE fn = "atan2"     -> atan2(n, a, b)
      [] fn = "magnitude" -> magnitude(a, b)

\* what operation fn returns to a single caller
alone(fn, n, a, b) ==
    CASE fn = "sin"       -> sin(n, a)
      [] fn = "cos"       -> cos(n, a)
      [] fn = "atan2"     -> atan2(n, a, b)
      [] fn = "asin"      -> asin(n, a)
      [] fn = "acos"      -> acos(n, a)
      [] fn = "magnitude" -> magnitude(a, b)

----------------------------------------------------------------------------
(* Angle conversion utilities *)

\* the test of from_degrees's first loop, while (degrees < 0)
add_turn(degrees) == degrees < 0

\* the second loop's test written degrees > 360
sub_turn_Exclusive(degrees) == degrees > 360

\* the test of from_degrees's second loop, while (degrees >= 360)
sub_turn(degrees) == degrees >= 360

\* the return expression of from_degrees, for the normalized degrees
degrees_to_units(degrees) == ToU16((degrees * 16384) \div 360)

\* to_degrees rounding to the nearest degree instead of truncating
to_degrees_Rounded(angle) == ToI16((angle * 360 + 8192) \div 16384)

to_degrees(angle) == ToI16((angle * 360) \div 16384)

----------------------------------------------------------------------------
(* The callers: an argument is drawn, then operations are applied to it *)

\* every uint16_t angle
Angles == 0..(U16 - 1)

\* every int16_t value
Int16 == I16Min..I16Max

\* the coordinates atan2 is called with off the axes: a full grid around the
\* origin and the magnitudes the tests and the type's limits name
MaxCoord == 24
Coords == (-MaxCoord..MaxCoord) \cup {I16Min, -I16Max, -1000, 1000, I16Max}

\* the coordinates magnitude is called with: the same grid around the origin,
\* the legs of the 3-4-5 and 5-12-13 triangles the tests name, their
\* multiples near the top of the supported range, and the range's limit 2^20
MagnitudeLegs == {3000, 4000, 5000, 12000, 600000, 800000, 1048576}
MagnitudeCoords ==
    (-MaxCoord..MaxCoord) \cup MagnitudeLegs \cup {-c : c \in MagnitudeLegs}

\* the common factors atan2's arguments are scaled by
MaxScale == 8

\* the candidate template arguments: 0 up to the first power of two above
\* the accepted range
MaxTableSize == 8192
CandidateSizes == 0..MaxTableSize

\* the concurrent callers (threads, interrupt handlers)
NumCallers == 2
Callers == 1..NumCallers

\* the calls <<operation, first argument, second argument>> they make
ConcurrentCalls ==
    {<<"sin", 1000, 0>>, <<"cos", 13000, 0>>, <<"atan2", 3, -4>>,
     <<"atan2", -5, 0>>, <<"asin", 5000, 0>>, <<"acos", -7000, 0>>,
     <<"magnitude", 3, 4>>}

\* the frame of a caller outside any call
IdleFrame ==
    [pc |-> "idle", fn |-> "none", a |-> 0, b |-> 0,
     quadrant |-> 0, index |-> 0, fraction |-> 0, y0 |-> 0, y1 |-> 0,
     ret |-> 0, overlapped |-> FALSE]

\* a call that has started and not returned
InProgress(f) == f.pc \in {"called", "folded", "loaded0", "loaded1"}

TypeOK ==
    /\ \/ N \in TableSizes
       \/ kind = "template" /\ N \in CandidateSizes
    /\ kind \in {"angle", "vector", "value", "point", "index", "template",
                 "degrees", "units", "callers"}
    /\ in1 \in Int /\ in2 \in Int
    /\ op \in {"none", "sin", "cos", "tan", "sincos", "atan2", "asin", "acos",
               "magnitude", "sine_q", "atan_q", "asin_q", "instantiate",
               "add_turn", "sub_turn", "from_degrees", "to_degrees"}
    /\ out \in Int /\ out2 \in Int
    /\ \/ calls = <<>>
       \/ /\ kind = "callers"
          /\ DOMAIN calls = Callers
          /\ \A c \in Callers :
                /\ calls[c].pc \in {"idle", "called", "folded", "loaded0",
                                    "loaded1", "returned"}
                /\ calls[c].fn \in Operations \cup {"none"}
                /\ calls[c].index \in 0..(N - 1)
                /\ calls[c].fraction \in 0..255
                /\ calls[c].overlapped \in BOOLEAN

\* a caller of Trig32 .. Trig512 holding an angle
InitTrig ==
    /\ N \in StandardSizes
    /\ kind = "angle"
    /\ in1 \in Angles
    /\ in2 = 0
    /\ op = "none"
    /\ out = 0
    /\ out2 = 0
    /\ calls = <<>>

\* a caller of Trig32 .. Trig512 holding a vector (y, x): every y on the
\* vertical axis x = 0, and the grid Coords x Coords
InitVector ==
    /\ N \in StandardSizes
    /\ kind = "vector"
    /\ \/ in1 \in Int16 /\ in2 = 0
       \/ in1 \in Coords /\ in2 \in Coords
    /\ op = "none"
    /\ out = 0
    /\ out2 = 0
    /\ calls = <<>>

\* a caller of Trig32 .. Trig512 holding an asin/acos input value
InitInverse ==
    /\ N \in StandardSizes
    /\ kind = "value"
    /\ in1 \in Int16
    /\ in2 = 0
    /\ op = "none"
    /\ out = 0
    /\ out2 = 0
    /\ calls = <<>>

\* a caller of Trig32 .. Trig512 holding a point (x, y) for magnitude
InitMagnitude ==
    /\ N \in StandardSizes
    /\ kind = "point"
    /\ in1 \in MagnitudeCoords
    /\ in2 \in MagnitudeCoords
    /\ op = "none"
    /\ out = 0
    /\ out2 = 0
    /\ calls = <<>>

\* the table builders of any accepted instantiation, at loop index i = in1
InitTables ==
    /\ N \in TableSizes
    /\ kind = "index"
    /\ in1 \in 0..(N - 1)
    /\ in2 = 0
    /\ op = "none"
    /\ out = 0
    /\ out2 = 0
    /\ calls = <<>>

\* a translation unit naming IntegerTrig<N> for a candidate N
InitInstantiate ==
    /\ N \in CandidateSizes
    /\ kind = "template"
    /\ in1 = 0
    /\ in2 = 0
    /\ op = "none"
    /\ out = 0
    /\ out2 = 0
    /\ calls = <<>>

\* a caller of AngleConvert (not a template: N stays at the default 128)
\* holding an int16_t of degrees or a uint16_t angle in internal units
InitConvert ==
    /\ N = 128
    /\ \/ kind = "degrees" /\ in1 \in Int16 /\ in2 = in1
       \/ kind = "units" /\ in1 \in Angles /\ in2 = 0
    /\ op = "none"
    /\ out = 0
    /\ out2 = 0
    /\ calls = <<>>

\* concurrent callers of Trig32 .. Trig512, none of them inside a call
InitConcurrent ==
    /\ N \in StandardSizes
    /\ kind = "callers"
    /\ in1 = 0
    /\ in2 = 0
    /\ op = "none"
    /\ out = 0
    /\ out2 = 0
    /\ calls = [c \in Callers |-> IdleFrame]

Sin ==
    /\ kind = "angle"
    /\ op' = "sin"
    /\ out' = sin(N, in1)
    /\ out2' = 0
    /\ UNCHANGED <<N, kind, in1, in2, calls>>

Cos ==
    /\ kind = "angle"
    /\ op' = "cos"
    /\ out' = cos(N, in1)
    /\ out2' = 0
    /\ UNCHANGED <<N, kind, in1, in2, calls>>

Tan ==
    /\ kind = "angle"
    /\ op' = "tan"
    /\ out' = tan(N, in1)
    /\ out2' = 0
    /\ UNCHANGED <<N, kind, in1, in2, calls>>

SinCos ==
    /\ kind = "angle"
    /\ op' = "sincos"
    /\ out' = sin(N, in1)
    /\ out2' = cos(N, in1)
    /\ UNCHANGED <<N, kind, in1, in2, calls>>

Atan2 ==
    /\ kind = "vector"
    /\ op' = "atan2"
    /\ out' = atan2(N, in1, in2)
    /\ out2' = 0
    /\ UNCHANGED <<N, kind, in1, in2, calls>>

Asin ==
    /\ kind = "value"
    /\ op' = "asin"
    /\ out' = asin(N, in1)
    /\ out2' = 0
    /\ UNCHANGED <<N, kind, in1, in2, calls>>

Acos ==
    /\ kind = "value"
    /\ op' = "acos"
    /\ out' = acos(N, in1)
    /\ out2' = 0
    /\ UNCHANGED <<N, kind, in1, in2, calls>>

Magnitude ==
    /\ kind = "point"
    /\ op' = "magnitude"
    /\ out' = magnitude(in1, in2)
    /\ out2' = 0
    /\ UNCHANGED <<N, kind, in1, in2, calls>>

\* table[i] = ... of generate_sine_quarter_table: the entry stored at i = in1
SineEntry ==
    /\ kind = "index"
    /\ op' = "sine_q"
    /\ out' = sine_quarter_table[N][in1]
    /\ out2' = 0
    /\ UNCHANGED <<N, kind, in1, in2, calls>>

\* table[i] = ... of generate_atan_quarter_table
AtanEntry ==
    /\ kind = "index"
    /\ op' = "atan_q"
    /\ out' = atan_quarter_table[N][in1]
    /\ out2' = 0
    /\ UNCHANGED <<N, kind, in1, in2, calls>>

\* table[i] = ... of generate_asin_quarter_table
AsinEntry ==
    /\ kind = "index"
    /\ op' = "asin_q"
    /\ out' = asin_quarter_table[N][in1]
    /\ out2' = 0
    /\ UNCHANGED <<N, kind, in1, in2, calls>>

\* the build of a translation unit that names IntegerTrig<N>: out = 1 and
\* the tables are materialized when the constraint holds, out = 0 and
\* nothing is materialized when the compiler rejects the instantiation
Instantiate ==
    /\ kind = "template"
    /\ op' = "instantiate"
    /\ out' = IF ValidTableSize(N) THEN 1 ELSE 0
    /\ out2' = IF ValidTableSize(N) THEN table_memory(N) ELSE 0
    /\ UNCHANGED <<N, kind, in1, in2, calls>>

\* one iteration of from_degrees's first loop: degrees += 360 on an int16_t
FromDegreesAdd ==
    /\ kind = "degrees"
    /\ op \in {"none", "add_turn"}
    /\ add_turn(in2)
    /\ op' = "add_turn"
    /\ in2' = ToI16(in2 + 360)
    /\ out2' = out2 + 1
    /\ UNCHANGED <<N, kind, in1, out, calls>>

\* one iteration of from_degrees's second loop: degrees -= 360
FromDegreesSub ==
    /\ kind = "degrees"
    /\ op \in {"none", "add_turn", "sub_turn"}
    /\ ~add_turn(in2)
    /\ sub_turn(in2)
    /\ op' = "sub_turn"
    /\ in2' = ToI16(in2 - 360)
    /\ out2' = out2 + 1
    /\ UNCHANGED <<N, kind, in1, out, calls>>

\* both loops have exited: from_degrees returns
FromDegreesReturn ==
    /\ kind = "degrees"
    /\ op \in {"none", "add_turn", "sub_turn"}
    /\ ~add_turn(in2)
    /\ ~sub_turn(in2)
    /\ op' = "from_degrees"
    /\ out' = degrees_to_units(in2)
    /\ UNCHANGED <<N, kind, in1, in2, out2, calls>>

ToDegrees ==
    /\ kind = "units"
    /\ op' = "to_degrees"
    /\ out' = to_degrees(in1)
    /\ out2' = 0
    /\ UNCHANGED <<N, kind, in1, in2, calls>>

\* the locals of caller c: automatic variables, one set per call
locals_SharedStatic(cs, c) == cs[1]

locals(cs, c) == cs[c]

\* caller c moves to frame f; every call in progress meanwhile, c's own
\* included, is marked as having overlapped another caller's
step(cs, c, f) ==
    LET busy == \E d \in Callers \ {c} : InProgress(cs[d])
    IN  [d \in Callers |->
            IF d = c THEN [f EXCEPT !.overlapped = f.overlapped \/ busy]
            ELSE IF InProgress(cs[d]) THEN [cs[d] EXCEPT !.overlapped = TRUE]
            ELSE cs[d]]

\* a caller enters one of the public operations
Call ==
    /\ kind = "callers"
    /\ \E c \in Callers, call \in ConcurrentCalls :
          /\ calls[c].pc \in {"idle", "returned"}
          /\ calls' = step(calls, c, [IdleFrame EXCEPT !.pc = "called",
                                        !.fn = call[1], !.a = call[2],
                                        !.b = call[3]])
    /\ UNCHANGED <<N, kind, in1, in2, op, out, out2>>

\* a caller runs the statements before the first table read, or the whole
\* operation when it reads no table
Fold ==
    /\ kind = "callers"
    /\ \E c \in Callers :
          /\ calls[c].pc = "called"
          /\ LET me == calls[c]
                 f  == fold(me.fn, N, me.a, me.b)
             IN  calls' = step(calls, c,
                    IF f.reads
                    THEN [me EXCEPT !.pc = "folded", !.quadrant = f.quadrant,
                                    !.index = f.index, !.fraction = f.fraction]
                    ELSE [me EXCEPT !.pc = "returned",
                            !.ret = return_direct(me.fn, N, me.a, me.b)])
    /\ UNCHANGED <<N, kind, in1, in2, op, out, out2>>

\* int32_t y0 = table[index]
Load0 ==
    /\ kind = "callers"
    /\ \E c \in Callers :
          /\ calls[c].pc = "folded"
          /\ LET me == calls[c]
                 l  == locals(calls, c)
             IN  calls' = step(calls, c,
                    [me EXCEPT !.pc = "loaded0",
                               !.y0 = table_read(me.fn, N, l.index)])
    /\ UNCHANGED <<N, kind, in1, in2, op, out, out2>>

\* int32_t y1 = table[(index + 1) & TABLE_MASK]
Load1 ==
    /\ kind = "callers"
    /\ \E c \in Callers :
          /\ calls[c].pc = "loaded0"
          /\ LET me == calls[c]
                 l  == locals(calls, c)
             IN  calls' = step(calls, c,
                    [me EXCEPT !.pc = "loaded1",
                               !.y1 = table_read(me.fn, N,
                                        Mask(l.index + 1, TABLE_MASK(N)))])
    /\ UNCHANGED <<N, kind, in1, in2, op, out, out2>>

\* a caller interpolates and returns
Return ==
    /\ kind = "callers"
    /\ \E c \in Callers :
          /\ calls[c].pc = "loaded1"
          /\ LET me == calls[c]
                 l  == locals(calls, c)
             IN  calls' = step(calls, c,
                    [me EXCEPT !.pc = "returned",
                               !.ret = finish(me.fn, me.a, me.b, l.quadrant,
                                              l.y0, l.y1, l.fraction)])
    /\ UNCHANGED <<N, kind, in1, in2, op, out, out2>>

NextTrig == Sin \/ Cos \/ Tan \/ SinCos

NextVector == Atan2

NextInverse == Asin \/ Acos

NextMagnitude == Magnitude

NextTables == SineEntry \/ AtanEntry \/ AsinEntry

NextInstantiate == Instantiate

NextConvert ==
    FromDegreesAdd \/ FromDegreesSub \/ FromDegreesReturn \/ ToDegrees

NextConcurrent == Call \/ Fold \/ Load0 \/ Load1 \/ Return

SpecTrig == InitTrig /\ [][NextTrig]_vars

SpecVector == InitVector /\ [][NextVector]_vars

SpecInverse == InitInverse /\ [][NextInverse]_vars

SpecMagnitude == InitMagnitude /\ [][NextMagnitude]_vars

SpecTables == InitTables /\ [][NextTables]_vars

SpecInstantiate == InitInstantiate /\ [][NextInstantiate]_vars

SpecConvert == InitConvert /\ [][NextConvert]_vars

SpecConcurrent == InitConcurrent /\ [][NextConcurrent]_vars

Init ==
    \/ InitTrig \/ InitVector \/ InitInverse \/ InitMagnitude \/ InitTables
    \/ InitInstantiate \/ InitConvert \/ InitConcurrent

Next ==
    \/ NextTrig \/ NextVector \/ NextInverse \/ NextMagnitude \/ NextTables
    \/ NextInstantiate \/ NextConvert \/ NextConcurrent

Spec == Init /\ [][Next]_vars

----------------------------------------------------------------------------
(* Properties of sin, cos and tan, checked under SpecTrig *)

\* C1: for every 16-bit angle a and every instantiated table size, cos(a)
\* equals sin((a + 4096) mod 16384): cosine is sine advanced by a quarter
\* turn of 4096 units.
C1_CosIsSineQuarterTurn ==
    op = "cos" => out = sin(N, (in1 + 4096) % 16384)

\* C2: with N = 128, sin(0) = 0 exactly, sin(4096) is within 1 of 16384,
\* sin(8192) within 1 of 0 and sin(12288) within 1 of -16384.
C2_SinCardinalAngles ==
    (N = 128 /\ op = "sin") =>
        /\ in1 = 0 => out = 0
        /\ in1 = 4096 => Abs(out - 16384) <= 1
        /\ in1 = 8192 => Abs(out) <= 1
        /\ in1 = 12288 => Abs(out + 16384) <= 1

\* C3: for every 16-bit angle and every standard table size, the results of
\* sin and cos lie in [-16384, +16384].
C3_SinCosRange ==
    op \in {"sin", "cos"} => (out >= -16384 /\ out <= 16384)

\* The reference sine, 16384 * sin(2*pi*a/16384) rounded to the nearest
\* integer, tabulated over the first quadrant at every 64th angle and folded
\* over the other three.
RefSineQuarter ==
    <<
        0, 402, 804, 1205, 1606, 2006, 2404, 2801,
        3196, 3590, 3981, 4370, 4756, 5139, 5520, 5897,
        6270, 6639, 7005, 7366, 7723, 8076, 8423, 8765,
        9102, 9434, 9760, 10080, 10394, 10702, 11003, 11297,
        11585, 11866, 12140, 12406, 12665, 12916, 13160, 13395,
        13623, 13842, 14053, 14256, 14449, 14635, 14811, 14978,
        15137, 15286, 15426, 15557, 15679, 15791, 15893, 15986,
        16069, 16143, 16207, 16261, 16305, 16340, 16364, 16379,
        16384
    >>

RefSine(a) ==
    LET quadrant == a \div 4096
        position == a % 4096
        folded   == IF quadrant % 2 = 1 THEN 4096 - position ELSE position
        value    == RefSineQuarter[(folded \div 64) + 1]
    IN  IF quadrant >= 2 THEN -value ELSE value

\* C4: for N >= 128 and every angle a in [0, 16384), sin(a)/16384 differs
\* from the true sine of 2*pi*a/16384 by at most 0.001, that is, sin(a)
\* differs from the reference (rounded to an integer) by at most 16; stated
\* at the angles the reference tabulates.
C4_SinAccuracy ==
    (N >= 128 /\ op = "sin" /\ in1 < 16384 /\ in1 % 64 = 0) =>
        Abs(out - RefSine(in1)) <= 16

\* C5: with N = 128, for every angle a in [0, 16384), sin(a)^2 + cos(a)^2
\* lies between 0.997 * 16384^2 and 1.003 * 16384^2.
C5_PythagoreanIdentity ==
    (N = 128 /\ op = "sincos" /\ in1 < 16384) =>
        /\ out * out + out2 * out2 >= 267630150
        /\ out * out + out2 * out2 <= 269240762

\* C6: with s = sin(a) and c = cos(a): if |c| < 100, tan(a) is +32767 when
\* s >= 0 and -32767 when s < 0; otherwise tan(a) is the integer quotient
\* (s * 8192) / c, truncated toward zero and clamped to [-32767, +32767].  In
\* every case tan(a) lies in [-32767, +32767] and is never -32768.
\* The quotient is stated by its bounds: q = trunc(p / c) iff q has the sign
\* of p / c (or is 0) and |q| * |c| <= |p| < (|q| + 1) * |c|.
C6_TanContract ==
    op = "tan" =>
        LET s == sin(N, in1)
            c == cos(N, in1)
            \* the sign-adjusted dividend: p / c = pc / |c|
            pc == IF c < 0 THEN -(s * 8192) ELSE s * 8192
        IN  /\ out >= -32767 /\ out <= 32767
            /\ Abs(c) < 100 => out = (IF s >= 0 THEN 32767 ELSE -32767)
            /\ Abs(c) >= 100 =>
                  \/ out = 32767 /\ pc >= 32767 * Abs(c)
                  \/ out = -32767 /\ pc <= -32767 * Abs(c)
                  \/ /\ Abs(out) < 32767
                     /\ Abs(out) * Abs(c) <= Abs(pc)
                     /\ Abs(pc) < (Abs(out) + 1) * Abs(c)
                     /\ out > 0 => pc > 0
                     /\ out < 0 => pc < 0

\* C6 witness: tan returned a quotient clamped at -32767 away from the
\* asymptote band
C6_Witness ==
    /\ op = "tan"
    /\ Abs(cos(N, in1)) >= 100
    /\ out = -32767

----------------------------------------------------------------------------
(* Properties of atan2, checked under SpecVector (in1 = y, in2 = x) *)

\* C7: with N = 128, for every positive m, atan2 on the four diagonals
\* converts to exact degrees: (m, m) to 45, (m, -m) to 135, (-m, -m) to 225
\* and (-m, m) to 315.
C7_Atan2Diagonals ==
    (N = 128 /\ op = "atan2" /\ in1 # 0 /\ Abs(in1) = Abs(in2)
        /\ Abs(in1) <= I16Max) =>
        /\ (in1 > 0 /\ in2 > 0) => to_degrees(out) = 45
        /\ (in1 > 0 /\ in2 < 0) => to_degrees(out) = 135
        /\ (in1 < 0 /\ in2 < 0) => to_degrees(out) = 225
        /\ (in1 < 0 /\ in2 > 0) => to_degrees(out) = 315

\* C8: for every int16 y, atan2(y, 0) is exactly 4096 when y > 0, exactly
\* 12288 when y < 0 and exactly 0 when y = 0.
C8_Atan2VerticalAxis ==
    (op = "atan2" /\ in2 = 0) =>
        /\ in1 > 0 => out = 4096
        /\ in1 < 0 => out = 12288
        /\ in1 = 0 => out = 0

\* C8 witness: atan2 returned for a point below the origin on the axis x = 0
C8_Witness ==
    op = "atan2" /\ in2 = 0 /\ in1 = I16Min /\ out = 12288

\* C9: with N = 128, for every positive m, atan2(0, m) converts to 0
\* degrees and atan2(0, -m) to 180 degrees.
C9_Atan2HorizontalAxis ==
    (N = 128 /\ op = "atan2" /\ in1 = 0 /\ in2 # 0 /\ Abs(in2) <= I16Max) =>
        /\ in2 > 0 => to_degrees(out) = 0
        /\ in2 < 0 => to_degrees(out) = 180

\* C10: for every pair of int16 inputs and every standard table size, the
\* value atan2 returns is an angle in [0, 16384).
C10_Atan2BelowFullTurn ==
    op = "atan2" => (out >= 0 /\ out < 16384)

\* the mathematical quadrant of a point off both axes: 0 for x > 0, y > 0,
\* then counterclockwise
MathQuadrant(y, x) ==
    IF x > 0 /\ y > 0 THEN 0
    ELSE IF x < 0 /\ y > 0 THEN 1
    ELSE IF x < 0 /\ y < 0 THEN 2
    ELSE 3

\* C11: for every int16 pair with x # 0 and y # 0, bits 13-12 of
\* atan2(y, x) equal the mathematical quadrant of the point.
C11_Atan2QuadrantBits ==
    (op = "atan2" /\ in1 # 0 /\ in2 # 0) =>
        (out \div 4096) % 4 = MathQuadrant(in1, in2)

----------------------------------------------------------------------------
(* Properties of asin and acos, checked under SpecInverse (in1 = value) *)

\* C12: asin and acos clamp their input to [-8192, +8192]: for v > 8192,
\* asin(v) = asin(8192) and acos(v) = acos(8192); for v < -8192,
\* asin(v) = asin(-8192) and acos(v) = acos(-8192).
C12_InverseClampAtUnit ==
    /\ (op = "asin" /\ in1 > 8192) => out = asin(N, 8192)
    /\ (op = "acos" /\ in1 > 8192) => out = acos(N, 8192)
    /\ (op = "asin" /\ in1 < -8192) => out = asin(N, -8192)
    /\ (op = "acos" /\ in1 < -8192) => out = acos(N, -8192)

\* C13: with N = 128, asin(0) = 0, acos(0) = 4096, asin(8192) = 4096 and
\* acos(8192) = 0.
C13_InverseEndPoints ==
    N = 128 =>
        /\ (op = "asin" /\ in1 = 0) => out = 0
        /\ (op = "acos" /\ in1 = 0) => out = 4096
        /\ (op = "asin" /\ in1 = 8192) => out = 4096
        /\ (op = "acos" /\ in1 = 8192) => out = 0

\* C14: with N = 128, for every v in [-8192, 8192], negative values
\* included, the plain integer sum asin(v) + acos(v) differs from 4096 by at
\* most 10.
C14_AsinPlusAcos ==
    (N = 128 /\ op = "acos" /\ in1 >= -8192 /\ in1 <= 8192) =>
        Abs(asin(N, in1) + out - 4096) <= 10

\* C15: with N = 128, for every v in [-8192, 8192], sin(asin(v)) differs from
\* v by at most 100.
C15_SinOfAsin ==
    (N = 128 /\ op = "asin" /\ in1 >= -8192 /\ in1 <= 8192) =>
        Abs(sin(N, out) - in1) <= 100

\* C16: for every negative int16 v, asin(v) is an angle in the fourth
\* quadrant [12288, 16384); in particular it is never 16384.
C16_AsinNegativeQuadrant ==
    (op = "asin" /\ in1 < 0) => (out >= 12288 /\ out < 16384)

----------------------------------------------------------------------------
(* Properties of magnitude, checked under SpecMagnitude (in1 = x, in2 = y) *)

\* sqrt(x^2 + y^2) where it is an integer the model's points reach: a point
\* on an axis, or the legs of a 3-4-5 or 5-12-13 triangle; -1 elsewhere
ExactHypotenuse(x, y) ==
    LET lo == IF Abs(x) < Abs(y) THEN Abs(x) ELSE Abs(y)
        hi == IF Abs(x) < Abs(y) THEN Abs(y) ELSE Abs(x)
    IN  IF lo = 0 THEN hi
        ELSE IF 4 * lo = 3 * hi THEN 5 * (lo \div 3)
        ELSE IF 12 * lo = 5 * hi THEN 13 * (lo \div 5)
        ELSE -1

\* C17: for every (x, y) with |x|, |y| <= 2^20, magnitude(x, y) is within 1%
\* of sqrt(x^2 + y^2): where the hypotenuse h is an integer,
\* 100 * |magnitude - h| <= h (so within 50 of 5000 at (3000, 4000) and
\* within 130 of 13000 at (5000, 12000)); on the grid around the origin,
\* 0.99^2 * (x^2 + y^2) <= magnitude^2 <= 1.01^2 * (x^2 + y^2).
C17_MagnitudeWithinOnePercent ==
    (op = "magnitude" /\ Abs(in1) <= 1048576 /\ Abs(in2) <= 1048576) =>
        /\ ExactHypotenuse(in1, in2) >= 0 =>
              100 * Abs(out - ExactHypotenuse(in1, in2))
                  <= ExactHypotenuse(in1, in2)
        /\ (Abs(in1) <= MaxCoord /\ Abs(in2) <= MaxCoord) =>
              /\ 9801 * (in1 * in1 + in2 * in2) <= 10000 * out * out
              /\ 10000 * out * out <= 10201 * (in1 * in1 + in2 * in2)

----------------------------------------------------------------------------
(* Properties of the generated tables, checked under SpecTables (in1 = i) *)

\* C18: for every valid table size N, sine_q[0] = 0 and sine_q[N-1] is the
\* encoded value of sin(pi/2), 16384.
C18_SineTableEnds ==
    op = "sine_q" =>
        /\ in1 = 0 => out = 0
        /\ in1 = N - 1 => out = 16384

\* C19: for every valid table size N, the sine table is monotonically
\* nondecreasing: sine_q[i] <= sine_q[i+1] for all 0 <= i < N-1.
C19_SineTableMonotone ==
    (op = "sine_q" /\ in1 < N - 1) => out <= sine_quarter_table[N][in1 + 1]

\* C20: for every valid table size N, atan_q[0] = 0 and atan_q[N-1] is
\* within 1 of 2048.
C20_AtanTableEnds ==
    op = "atan_q" =>
        /\ in1 = 0 => out = 0
        /\ in1 = N - 1 => Abs(out - 2048) <= 1

\* C21: for every valid table size N (every power of two in [8, 4096]),
\* asin_q[0] = 0 and asin_q[N-1] is within 1 of 4096 (pi/2 in internal
\* units).
C21_AsinTableEnds ==
    op = "asin_q" =>
        /\ in1 = 0 => out = 0
        /\ in1 = N - 1 => Abs(out - 4096) <= 1

----------------------------------------------------------------------------
(* The template constraint, checked under SpecInstantiate *)

\* the powers of two from 8 to 4096
PowersOfTwoInRange == {Pow2(k) : k \in 3..12}

\* C22: an instantiation with table size N is accepted if and only if N is
\* a power of two with 8 <= N <= 4096; every other N (zero, non powers of
\* two, powers of two below 8 or above 4096) is rejected at build time and
\* produces no tables.
C22_AcceptedSizes ==
    op = "instantiate" =>
        /\ out \in {0, 1}
        /\ out = 1 <=> N \in PowersOfTwoInRange
        /\ out = 1 => out2 = 6 * N
        /\ out = 0 => out2 = 0

\* the first power of two above the range has been rejected
C22_Witness == op = "instantiate" /\ N = 2 * 4096 /\ out = 0 /\ out2 = 0

----------------------------------------------------------------------------
(* Properties of AngleConvert, checked under SpecConvert *)

\* C23: for every int16 d, from_degrees(d) terminates and returns
\* floor(((d mod 360) * 16384) / 360) with d mod 360 taken in [0, 360); the
\* result is always below 16384, and from_degrees(d) = from_degrees(d + 360)
\* whenever both are representable.  Termination: every loop iteration is
\* counted and the count never passes 92 (the guards of the two loop steps
\* and of the return cover every value of degrees, so one of them is
\* enabled until the return).  Periodicity: the value returned for d is
\* the one the closed form gives for d + 360.
C23_FromDegrees ==
    kind = "degrees" =>
        /\ out2 <= 92
        /\ op = "from_degrees" =>
              /\ out = ((in1 % 360) * 16384) \div 360
              /\ out < 16384
              /\ in1 + 360 <= I16Max =>
                    out = (((in1 + 360) % 360) * 16384) \div 360

\* the most negative int16 has been converted, after 92 loop iterations
C23_Witness ==
    op = "from_degrees" /\ in1 = I16Min /\ out2 = 92 /\ out = 16019

----------------------------------------------------------------------------
(* Concurrent callers, checked under SpecConcurrent *)

\* C24: the kernel has no mutable state: in any interleaving of concurrent
\* calls to the public operations, every call returns exactly the value it
\* returns when executed alone with the same arguments.  The three tables
\* are constants of the model, as they are constexpr objects of the class:
\* no step assigns them, and the only state a step changes is the frame of
\* the caller that takes it.
C24_ConcurrentCallsReturnAlone ==
    kind = "callers" =>
        \A c \in Callers :
            calls[c].pc = "returned" =>
                calls[c].ret = alone(calls[c].fn, N, calls[c].a, calls[c].b)

\* two calls reading the same table with different arguments have both
\* returned, each having run while the other was in progress
C24_Witness ==
    /\ kind = "callers"
    /\ calls[1].pc = "returned" /\ calls[1].fn = "sin" /\ calls[1].overlapped
    /\ calls[2].pc = "returned" /\ calls[2].fn = "cos" /\ calls[2].overlapped

----------------------------------------------------------------------------
(* Further properties of the evaluators *)

\* C25: in the interpolating evaluators sin and asin, whenever the integer
\* table index is N-1 the wrapped upper neighbour table[0] does not change
\* the result: for every input that reaches index N-1, the value returned
\* is the one obtained with table[N-1] in the place of the upper neighbour.
C25_WrappedNeighbourHarmless ==
    /\ (op = "sin" /\ sin_fold(N, in1).index = N - 1) =>
          out = sin_finish(sin_fold(N, in1).quadrant,
                           sine_quarter_table[N][N - 1],
                           sine_quarter_table[N][N - 1],
                           sin_fold(N, in1).fraction)
    /\ (op = "asin" /\ asin_fold(N, in1).index = N - 1) =>
          out = asin_finish(in1, asin_quarter_table[N][N - 1],
                            asin_quarter_table[N][N - 1],
                            asin_fold(N, in1).fraction)

\* C26: for every 16-bit angle a and every instantiated N, sin is exactly
\* antisymmetric under a half turn and periodic under a full turn:
\* sin((a + 8192) mod 65536) = -sin(a) and sin(a) = sin(a mod 16384); the
\* branchless negate returns -value exactly when the quadrant's high bit
\* is set and value otherwise, value being the interpolated table value.
C26_SinHalfTurnAntisymmetry ==
    op = "sin" =>
        LET f     == sin_fold(N, in1)
            y0    == sine_quarter_table[N][f.index]
            y1    == sine_quarter_table[N][Mask(f.index + 1, TABLE_MASK(N))]
            value == ToI16(Interpolate(y0, y1, f.fraction))
        IN  /\ sin(N, (in1 + 8192) % 65536) = -out
            /\ out = sin(N, in1 % 16384)
            /\ out = IF f.quadrant >= 2 THEN -value ELSE value

\* sin has returned a negated, non-zero value for an angle beyond the first
\* full turn whose quadrant has the high bit set
C26_Witness ==
    /\ op = "sin" /\ N = 128 /\ in1 = 60000
    /\ sin_fold(N, in1).quadrant = 2
    /\ out < 0

\* C27: magnitude is symmetric in its two arguments: for every pair of
\* inputs within the supported range, magnitude(x, y) = magnitude(y, x).
C27_MagnitudeSymmetric ==
    op = "magnitude" => out = magnitude(in2, in1)

\* floor(x * 39797 / 65536) in unbounded integers, for 0 <= x < 2^26
GainCorrected(x) ==
    LET xh == x \div 65536
        xl == x % 65536
        a  == xl \div 256
        b  == xl % 256
    IN  xh * 39797 + ((a * 39797 + ((b * 39797) \div 256)) \div 256)

\* C28: for every (x, y) with |x|, |y| <= 2^20, no unsigned 32-bit
\* wraparound occurs in magnitude: the accumulated x value times the gain
\* constant 39797 stays below 2^32 (its quotient by 2^16 stays below 2^16),
\* so the value returned is floor(x_final * 39797 / 65536) computed in
\* unbounded integers.
C28_MagnitudeNoWraparound ==
    op = "magnitude" =>
        LET x_final == magnitude_loop(0, Abs(in1), Abs(in2))
        IN  /\ GainCorrected(x_final) < 65536
            /\ out = GainCorrected(x_final)

\* C29: atan2 is independent of the common scale of its inputs: with
\* N = 128, for every int16 pair (y, x) and every positive integer k such
\* that k*y and k*x are still representable as int16,
\* atan2(k*y, k*x) = atan2(y, x).
C29_Atan2ScaleIndependent ==
    (op = "atan2" /\ N = 128) =>
        \A k \in 1..MaxScale :
            (k * in1 \in Int16 /\ k * in2 \in Int16) =>
                atan2(N, k * in1, k * in2) = out

\* atan2 has returned for a point off the axes and off the diagonals whose
\* multiples up to the largest factor are representable
C29_Witness ==
    /\ op = "atan2" /\ N = 128 /\ in1 = 3 /\ in2 = -7
    /\ MaxScale * in1 \in Int16 /\ MaxScale * in2 \in Int16
    /\ out = atan2(N, MaxScale * in1, MaxScale * in2)

\* C30: the degree round trip loses at most one degree and never gains:
\* for every d in [0, 360), to_degrees(from_degrees(d)) is d when d is a
\* multiple of 45 and d - 1 otherwise; and for every angle a in [0, 16384),
\* to_degrees(a) lies in [0, 359].
C30_DegreeRoundTrip ==
    /\ (op = "from_degrees" /\ in1 \in 0..359) =>
          to_degrees(out) = IF in1 % 45 = 0 THEN in1 ELSE in1 - 1
    /\ (op = "to_degrees" /\ in1 < 16384) => out \in 0..359

\* 100 degrees has been converted to 4551 units, which convert back to 99
C30_Witness ==
    op = "from_degrees" /\ in1 = 100 /\ out = 4551 /\ to_degrees(out) = 99

====
